---- MODULE Spec2Model ----
(***************************************************************************)
(* Model of desktop_entry_creator.py: the name sanitizer, the Exec command *)
(* builder, the interpreter history and the generate/install handler of    *)
(* DesktopLinkerApp.                                                       *)
(*                                                                         *)
(* A Python str is a sequence of one-character strings.  A file is a       *)
(* record [data, mode]; the filesystem is a function from path strings to  *)
(* files plus a set of directories.                                        *)
(***************************************************************************)
EXTENDS Integers, Sequences, FiniteSets, TLC

VARIABLES
    pc,         \* position of generate_desktop_file ("idle" between clicks)
    form,       \* the widgets' contents
    req,        \* the handler's locals of lines 376-386: the form as read
    env,        \* what the platform answers: DesktopLocation, the search path
    files,      \* path -> [data, mode] for the regular files under the targets
    dirs,       \* the directories that exist under the targets
    saveTmp,    \* the QSaveFile's temporary file: whether it exists, its data
    copied,     \* the local desktop_copy_success
    history,    \* the items of interpreter_combo, index 0 first
    settings,   \* the persisted value of SETTINGS_INTERPRETER_HISTORY
    notifs,     \* the QMessageBox dialogs shown by the current attempt
    log,        \* the log_output lines printed by the current attempt
    files0,     \* files when the current attempt started
    dirs0,      \* dirs when the current attempt started
    history0,   \* history when the current attempt started
    attempts,   \* number of clicks on Generate so far
    sn,         \* a call of sanitize_filename: argument, result
    ex,         \* a build of the Exec command: arguments, results
    rd,         \* a rendering of the descriptor text: the form, the lines
    pl          \* the install plans of two requests: the forms, the paths

vars == <<pc, form, req, env, files, dirs, saveTmp, copied, history, settings,
          notifs, log, files0, dirs0, history0, attempts,
          sn, ex, rd, pl>>

installVars == <<pc, form, req, env, files, dirs, saveTmp, copied, history, settings,
                 notifs, log, files0, dirs0, history0, attempts>>

None == "None"
NoTmp == [open |-> FALSE, data |-> <<>>]

(***************************************************************************)
(* Bounds                                                                  *)
(***************************************************************************)
MaxNameLen == 4
MaxAttempts == 1

(***************************************************************************)
(* Python str primitives                                                   *)
(***************************************************************************)
UpperLetters == <<"A","B","C","D","E","F","G","H","I","J","K","L","M",
                  "N","O","P","Q","R","S","T","U","V","W","X","Y","Z">>
LowerLetters == <<"a","b","c","d","e","f","g","h","i","j","k","l","m",
                  "n","o","p","q","r","s","t","u","v","w","x","y","z">>
DigitChars == {"0","1","2","3","4","5","6","7","8","9"}
SpaceChars == {" ", "\t", "\n"}

Range(s) == {s[i] : i \in DOMAIN s}

LowerChar(c) ==
    IF \E i \in DOMAIN UpperLetters : UpperLetters[i] = c
    THEN LowerLetters[CHOOSE i \in DOMAIN UpperLetters : UpperLetters[i] = c]
    ELSE c

\* str.lower()
Lower(s) == [i \in DOMAIN s |-> LowerChar(s[i])]

\* \w of the re module
IsWordChar(c) == c \in Range(UpperLetters) \cup Range(LowerLetters) \cup DigitChars \cup {"_"}

\* \s of the re module
IsSpaceChar(c) == c \in SpaceChars

RECURSIVE LStrip(_, _)
LStrip(s, cs) == IF s # <<>> /\ Head(s) \in cs THEN LStrip(Tail(s), cs) ELSE s

RECURSIVE RStrip(_, _)
RStrip(s, cs) ==
    IF s # <<>> /\ s[Len(s)] \in cs THEN RStrip(SubSeq(s, 1, Len(s) - 1), cs) ELSE s

\* str.strip(chars)
StripChars(s, cs) == RStrip(LStrip(s, cs), cs)

\* str.strip()
Strip(s) == StripChars(s, SpaceChars)

\* re.sub(r'[^\w\s-]', '', name)
RECURSIVE RemoveUnsafe(_)
RemoveUnsafe(s) ==
    IF s = <<>> THEN <<>>
    ELSE IF IsWordChar(Head(s)) \/ IsSpaceChar(Head(s)) \/ Head(s) = "-"
         THEN <<Head(s)>> \o RemoveUnsafe(Tail(s))
         ELSE RemoveUnsafe(Tail(s))

\* re.sub(r'\s+', '-', name): every maximal run of whitespace becomes one "-"
RECURSIVE SpacesToHyphen(_)
SpacesToHyphen(s) ==
    IF s = <<>> THEN <<>>
    ELSE IF IsSpaceChar(Head(s))
         THEN <<"-">> \o SpacesToHyphen(LStrip(s, SpaceChars))
         ELSE <<Head(s)>> \o SpacesToHyphen(Tail(s))

FallbackToken == <<"u","n","n","a","m","e","d","-","a","p","p">>

sanitize_filename_noStrip(name) ==
    LET t == SpacesToHyphen(RemoveUnsafe(Lower(name)))
    IN  IF t # <<>> THEN t ELSE FallbackToken

sanitize_filename_stripFirst(name) ==
    LET t == SpacesToHyphen(StripChars(RemoveUnsafe(Lower(name)), {"-"}))
    IN  IF t # <<>> THEN t ELSE FallbackToken

sanitize_filename(name) ==
    LET t == StripChars(SpacesToHyphen(RemoveUnsafe(Lower(name))), {"-"})
    IN  IF t # <<>> THEN t ELSE FallbackToken

(***************************************************************************)
(* pathlib primitives                                                      *)
(***************************************************************************)
\* Path(p) / q
PathJoin(p, q) == p \o <<"/">> \o q

LastIndexOf(s, c) ==
    IF \E i \in DOMAIN s : s[i] = c
    THEN CHOOSE i \in DOMAIN s : s[i] = c /\ \A j \in DOMAIN s : s[j] = c => j <= i
    ELSE 0

\* Path(p).name
PathName(p) == SubSeq(p, LastIndexOf(p, "/") + 1, Len(p))

\* Path(p).suffix
PathSuffix(p) ==
    LET name == PathName(p)
        i == LastIndexOf(name, ".")
    IN  IF 1 < i /\ i < Len(name) THEN SubSeq(name, i, Len(name)) ELSE <<>>

\* Path(p).parent
PathParent(p) == SubSeq(p, 1, LastIndexOf(p, "/") - 1)

(***************************************************************************)
(* The platform: standard directories, the search path, the source files   *)
(***************************************************************************)
HomeLocation == <<"/","h">>
GenericDataLocation == <<"/","h","/","s">>
ApplicationsLocation == <<"/","h","/","s","/","a">>
DesktopLocations == {<<>>, <<"/","h","/","D">>}

S_local == <<".","l","o","c","a","l">>
S_bin == <<"b","i","n">>
S_icons == <<"i","c","o","n","s">>
S_desktop == <<".","d","e","s","k","t","o","p">>
S_jar == <<"-","j","a","r">>
S_python3 == <<"p","y","t","h","o","n","3">>
S_java == <<"j","a","v","a">>
S_bash == <<"b","a","s","h">>
S_png == <<".","p","n","g">>
S_svg == <<".","s","v","g">>
S_xpm == <<".","x","p","m">>

ScriptA == <<"/","t","/","r","u","n",".","s","h">>
ScriptB == <<"/","o","/","r","u","n",".","s","h">>
IconPng == <<"/","t","/","i",".","P","N","G">>
IconSvg == <<"/","t","/","i",".","s","v","g">>
IconGif == <<"/","t","/","i",".","g","i","f">>
SomeDir == <<"/","t">>

\* rw-r--r-- and rwxr-xr-x
Mode644 == 6 * 64 + 4 * 8 + 4
Mode755 == 7 * 64 + 5 * 8 + 5
\* stat.S_IXUSR | stat.S_IXGRP | stat.S_IXOTH
ExecBits == 64 + 8 + 1

\* The regular files the user can select, with their content and mode.
SourceFiles ==
    (ScriptA :> [data |-> <<"a1", "a2">>, mode |-> Mode644]) @@
    (ScriptB :> [data |-> <<"b1", "b2">>, mode |-> Mode755]) @@
    (IconPng :> [data |-> <<"p1", "p2">>, mode |-> Mode644]) @@
    (IconSvg :> [data |-> <<"s1", "s2">>, mode |-> Mode644]) @@
    (IconGif :> [data |-> <<"g1", "g2">>, mode |-> Mode644])

\* Path(p).is_file()
is_file(p) == p \in DOMAIN SourceFiles

\* QStandardPaths.findExecutable(name): the path found, or "" when none is
find_executable_on_path(name, onPath) ==
    IF onPath THEN <<"/","u","/">> \o name ELSE <<>>

_get_default_interpreter_name(method_id) ==
    CASE method_id = 1 -> S_python3
      [] method_id = 2 -> S_java
      [] method_id = 3 -> S_bash
      [] OTHER -> <<>>

(***************************************************************************)
(* Exec command (lines 419-427)                                            *)
(***************************************************************************)
interpreter_cmd(method_id, interpreter_prefix, onPath) ==
    IF interpreter_prefix = <<>> /\ method_id \in {1, 2, 3}
    THEN LET default_name == _get_default_interpreter_name(method_id)
             found == find_executable_on_path(default_name, onPath)
         IN  IF found # <<>> THEN found ELSE default_name
    ELSE interpreter_prefix

should_add_to_history_resolved(method_id, interpreter_prefix, onPath) ==
    \/ method_id = 4 /\ interpreter_cmd(method_id, interpreter_prefix, onPath) # <<>>
    \/ method_id \in {1, 2, 3} /\ interpreter_cmd(method_id, interpreter_prefix, onPath) # <<>>

should_add_to_history(method_id, interpreter_prefix, onPath) ==
    \/ method_id = 4 /\ interpreter_cmd(method_id, interpreter_prefix, onPath) # <<>>
    \/ method_id \in {1, 2, 3} /\ interpreter_prefix # <<>>

quoted(path) == <<"\"">> \o path \o <<"\"">>

exec_command_direct_keeps_prefix(method_id, interpreter_prefix, onPath, script_target_path) ==
    LET cmd == interpreter_cmd(method_id, interpreter_prefix, onPath)
        q == quoted(script_target_path)
    IN  CASE method_id = 2 -> cmd \o <<" ">> \o S_jar \o <<" ">> \o q
          [] OTHER -> IF cmd # <<>> THEN cmd \o <<" ">> \o q ELSE q

exec_command_jar_after_path(method_id, interpreter_prefix, onPath, script_target_path) ==
    LET cmd == interpreter_cmd(method_id, interpreter_prefix, onPath)
        q == quoted(script_target_path)
    IN  CASE method_id = 0 -> q
          [] method_id = 2 -> cmd \o <<" ">> \o q \o <<" ">> \o S_jar
          [] method_id \in {1, 3} -> cmd \o <<" ">> \o q
          [] OTHER -> IF cmd # <<>> THEN cmd \o <<" ">> \o q ELSE q

exec_command(method_id, interpreter_prefix, onPath, script_target_path) ==
    LET cmd == interpreter_cmd(method_id, interpreter_prefix, onPath)
        q == quoted(script_target_path)
    IN  CASE method_id = 0 -> q
          [] method_id = 1 -> cmd \o <<" ">> \o q
          [] method_id = 2 -> cmd \o <<" ">> \o S_jar \o <<" ">> \o q
          [] method_id = 3 -> cmd \o <<" ">> \o q
          [] OTHER -> IF cmd # <<>> THEN cmd \o <<" ">> \o q ELSE q

(***************************************************************************)
(* Interpreter history (lines 296-306, 364-370)                            *)
(***************************************************************************)
MAX_INTERPRETER_HISTORY == 15

\* QComboBox.findText(text, Qt.MatchFixedString): string match, case-insensitive
findText(items, text) ==
    IF \E i \in DOMAIN items : Lower(items[i]) = Lower(text)
    THEN CHOOSE i \in DOMAIN items :
            /\ Lower(items[i]) = Lower(text)
            /\ \A j \in DOMAIN items : Lower(items[j]) = Lower(text) => i <= j
    ELSE -1

\* the while loop of line 369: removeItem(count() - 1) while count() > MAX
RECURSIVE TrimHistory(_)
TrimHistory(items) ==
    IF Len(items) > MAX_INTERPRETER_HISTORY
    THEN TrimHistory(SubSeq(items, 1, Len(items) - 1))
    ELSE items

add_interpreter_to_history_noTrim(items, cmd) ==
    IF cmd = <<>> THEN items
    ELSE IF findText(items, cmd) = -1
         THEN <<cmd>> \o items
         ELSE items

add_interpreter_to_history(items, cmd) ==
    IF cmd = <<>> THEN items
    ELSE IF findText(items, cmd) = -1
         THEN TrimHistory(<<cmd>> \o items)
         ELSE items

\* the value save_settings stores
SavedHistory(items) ==
    LET kept == SelectSeq(items, LAMBDA t : t # <<>>)
    IN  IF Len(kept) > MAX_INTERPRETER_HISTORY
        THEN SubSeq(kept, 1, MAX_INTERPRETER_HISTORY)
        ELSE kept

(***************************************************************************)
(* The form and the install plan (lines 376-415)                           *)
(***************************************************************************)
app_name(f) == Strip(f.name)
interpreter_prefix(f) == Strip(f.interp)
comment(f) == Strip(f.comment)

RECURSIVE Join(_, _)
Join(parts, sep) ==
    IF parts = <<>> THEN <<>>
    ELSE IF Len(parts) = 1 THEN parts[1]
         ELSE parts[1] \o sep \o Join(Tail(parts), sep)

categories_str(f) ==
    LET j == Join(f.cats, <<";">>)
    IN  IF j # <<>> /\ j[Len(j)] # ";" THEN j \o <<";">> ELSE j

icon_ext(f) == Lower(PathSuffix(f.icon))

IconExtOk_any(f) == TRUE

IconExtOk(f) == icon_ext(f) \in {S_png, S_svg, S_xpm}

base_filename(f) == sanitize_filename(app_name(f))
desktop_filename(f) == base_filename(f) \o S_desktop
app_dir_path == ApplicationsLocation
desktop_file_path(f) == PathJoin(app_dir_path, desktop_filename(f))
script_target_base_dir == PathJoin(PathJoin(HomeLocation, S_local), S_bin)
script_target_subdir_shared(f) == script_target_base_dir
script_target_subdir(f) == PathJoin(script_target_base_dir, base_filename(f))
script_target_path(f) == PathJoin(script_target_subdir(f), PathName(f.script))
icon_target_filename(f) == base_filename(f) \o icon_ext(f)
icons_base_dir == PathJoin(GenericDataLocation, S_icons)
icon_target_path(f) == PathJoin(icons_base_dir, icon_target_filename(f))
desktop_shortcut_path(f, e) == PathJoin(e.desktop, desktop_filename(f))

form_interpreter_cmd(f, e) == interpreter_cmd(f.method, interpreter_prefix(f), e.onPath)
form_exec_command(f, e) ==
    exec_command(f.method, interpreter_prefix(f), e.onPath, script_target_path(f))

form_should_add_to_history_resolved(f, e) ==
    should_add_to_history_resolved(f.method, interpreter_prefix(f), e.onPath)

form_should_add_to_history(f, e) ==
    should_add_to_history(f.method, interpreter_prefix(f), e.onPath)

(***************************************************************************)
(* The descriptor text (lines 431-442): one <<key, value>> per line        *)
(***************************************************************************)
S_true == <<"t","r","u","e">>
S_false == <<"f","a","l","s","e">>
S_version == <<"1",".","1">>
S_application == <<"A","p","p","l","i","c","a","t","i","o","n">>

desktop_content_categoriesFirst(f, e) ==
    <<  <<"[Desktop Entry]", <<>> >>,
        <<"Version", S_version>>,
        <<"Type", S_application>>,
        <<"Name", app_name(f)>>,
        <<"Exec", form_exec_command(f, e)>>,
        <<"Icon", icon_target_path(f)>>,
        <<"Terminal", IF f.terminal THEN S_true ELSE S_false>> >>
    \o (IF categories_str(f) # <<>> THEN << <<"Categories", categories_str(f)>> >> ELSE <<>>)
    \o (IF comment(f) # <<>> THEN << <<"Comment", comment(f)>> >> ELSE <<>>)
    \o << <<"Path", PathParent(script_target_path(f))>>,
          <<"StartupNotify", S_true>> >>

desktop_content(f, e) ==
    <<  <<"[Desktop Entry]", <<>> >>,
        <<"Version", S_version>>,
        <<"Type", S_application>>,
        <<"Name", app_name(f)>>,
        <<"Exec", form_exec_command(f, e)>>,
        <<"Icon", icon_target_path(f)>>,
        <<"Terminal", IF f.terminal THEN S_true ELSE S_false>> >>
    \o (IF comment(f) # <<>> THEN << <<"Comment", comment(f)>> >> ELSE <<>>)
    \o (IF categories_str(f) # <<>> THEN << <<"Categories", categories_str(f)>> >> ELSE <<>>)
    \o << <<"Path", PathParent(script_target_path(f))>>,
          <<"StartupNotify", S_true>> >>

\* The text of the descriptor: the header line, then key=value lines, each
\* ended by a line feed.
RECURSIVE TextOf(_)
TextOf(lines) ==
    IF lines = <<>> THEN <<>>
    ELSE (IF lines[1][2] = <<>> /\ lines[1][1] = "[Desktop Entry]"
          THEN <<lines[1][1]>>
          ELSE <<lines[1][1], "=">> \o lines[1][2])
         \o <<"\n">> \o TextOf(Tail(lines))

desktop_text(f, e) == TextOf(desktop_content(f, e))

(***************************************************************************)
(* The filesystem                                                          *)
(***************************************************************************)
NoFiles == [p \in {} |-> None]
Put(fs, p, file) == (p :> file) @@ fs
Exists(fs, p) == p \in DOMAIN fs

\* a | b on mode bits
RECURSIVE BitOr(_, _)
BitOr(a, b) ==
    IF a = 0 THEN b
    ELSE IF b = 0 THEN a
         ELSE (IF a % 2 = 1 \/ b % 2 = 1 THEN 1 ELSE 0) + 2 * BitOr(a \div 2, b \div 2)

\* what a copy that fails part-way can leave at the target
PartialData(data) == SubSeq(data, 1, Len(data) - 1)

\* the mode of a file QSaveFile commits: the replaced file's, or the default
CommitMode(fs, p) == IF Exists(fs, p) THEN fs[p].mode ELSE Mode644

(***************************************************************************)
(* Dialogs and log lines                                                   *)
(***************************************************************************)
Note(kind, title, detail) == [kind |-> kind, title |-> title, detail |-> detail]

otherVars == <<sn, ex, rd, pl>>

Fatal_silent(cause) ==
    /\ pc' = "done"
    /\ saveTmp' = NoTmp
    /\ log' = Append(log, "Error")
    /\ UNCHANGED <<form, req, env, copied, history, settings, notifs, files0, dirs0,
                   history0, attempts, otherVars>>

\* the outer except branch (lines 520-522); the QSaveFile is discarded
Fatal(cause) ==
    /\ pc' = "done"
    /\ saveTmp' = NoTmp
    /\ log' = Append(log, "Error")
    /\ notifs' = Append(notifs, Note("critical", "Error", cause))
    /\ UNCHANGED <<form, req, env, copied, history, settings, files0, dirs0, history0,
                   attempts, otherVars>>

\* a step that succeeded: the next step, and the line it logs (if any)
Step(next, line) ==
    /\ pc' = next
    /\ log' = IF line = None THEN log ELSE Append(log, line)
    /\ UNCHANGED <<form, req, env, copied, history, settings, notifs, files0, dirs0,
                   history0, attempts, otherVars>>

(***************************************************************************)
(* Inputs of the install model                                             *)
(***************************************************************************)
Interps == { <<>>, <<"x">>, <<" ","X">> }
Methods == 0..4
Envs == [desktop : DesktopLocations, onPath : BOOLEAN]

BaseForm ==
    [name |-> <<"c">>, script |-> ScriptA, icon |-> IconPng, interp |-> <<"x">>,
     method |-> 4, copy |-> TRUE, terminal |-> TRUE, comment |-> <<>>,
     cats |-> <<>>]

\* forms that pass the validation of lines 392-400
ValidForms ==
    [name : { <<"c">> }, script : {ScriptA}, icon : {IconPng}, interp : Interps,
     method : Methods, copy : BOOLEAN, terminal : {TRUE}, comment : {<<>>},
     cats : {<<>>}]
    \cup { [BaseForm EXCEPT !.script = ScriptB],
           [BaseForm EXCEPT !.name = <<"A"," ","b">>, !.icon = IconSvg],
           [BaseForm EXCEPT !.interp = <<"z">>] }

\* forms that fail it: blank name, no or bad script, no or bad icon, .gif icon
InvalidForms ==
    { [BaseForm EXCEPT !.name = <<" ">>],
      [BaseForm EXCEPT !.script = <<>>],
      [BaseForm EXCEPT !.script = SomeDir],
      [BaseForm EXCEPT !.icon = <<>>],
      [BaseForm EXCEPT !.icon = SomeDir],
      [BaseForm EXCEPT !.icon = IconGif] }

Forms == ValidForms \cup InvalidForms

\* the widgets after __init__ (lines 139, 221)
InitialForm ==
    [name |-> <<>>, script |-> <<>>, icon |-> <<>>, interp |-> <<>>,
     method |-> 1, copy |-> TRUE, terminal |-> FALSE, comment |-> <<>>,
     cats |-> <<>>]

\* the widgets after clear_fields (lines 529-540)
ClearedForm ==
    [name |-> <<>>, script |-> <<>>, icon |-> <<>>, interp |-> <<>>,
     method |-> 1, copy |-> FALSE, terminal |-> TRUE, comment |-> <<>>,
     cats |-> <<>>]

\* an earlier run's install of "c", as the files a later run finds
OldForm ==
    [name |-> <<"c">>, script |-> ScriptA, icon |-> IconPng, interp |-> <<>>,
     method |-> 0, copy |-> TRUE, terminal |-> FALSE, comment |-> <<>>,
     cats |-> <<>>]
OldEnv == [desktop |-> <<"/","h","/","D">>, onPath |-> TRUE]

InstalledFiles(f, e) ==
    LET d == [data |-> desktop_content(f, e), mode |-> Mode644]
    IN  (script_target_path(f) :>
            [data |-> SourceFiles[f.script].data,
             mode |-> BitOr(SourceFiles[f.script].mode, ExecBits)]) @@
        (icon_target_path(f) :> SourceFiles[f.icon]) @@
        (desktop_file_path(f) :> d) @@
        (desktop_shortcut_path(f, e) :> d)

InstalledDirs(f, e) ==
    {script_target_subdir(f), icons_base_dir, app_dir_path, e.desktop}

InitialHistories == { << <<"y">>, <<"x">> >> }

(***************************************************************************)
(* generate_desktop_file (lines 375-522), one action per step              *)
(***************************************************************************)
InstallInit ==
    /\ pc = "idle"
    /\ form = InitialForm
    /\ req = InitialForm
    /\ env \in Envs
    /\ \/ files = NoFiles /\ dirs = {}
       \/ files = InstalledFiles(OldForm, OldEnv) /\ dirs = InstalledDirs(OldForm, OldEnv)
    /\ saveTmp = NoTmp
    /\ copied = FALSE
    /\ history \in InitialHistories
    /\ settings = history
    /\ notifs = <<>>
    /\ log = <<>>
    /\ files0 = files
    /\ dirs0 = dirs
    /\ history0 = history
    /\ attempts = 0

\* lines 392-400: the dialog of the first check that fails, if one does
ValidationFailure(f) ==
    IF app_name(f) = <<>> THEN <<Note("warning", "Input Missing", "name")>>
    ELSE IF f.script = <<>> \/ ~is_file(f.script)
         THEN <<Note("warning", "Input Missing", "script")>>
    ELSE IF f.icon = <<>> \/ ~is_file(f.icon)
         THEN <<Note("warning", "Input Missing", "icon")>>
    ELSE IF ~IconExtOk(f) THEN <<Note("warning", "Invalid Icon", "extension")>>
    ELSE <<>>

\* the user fills the form in and clicks Generate: lines 376-445
Generate ==
    /\ pc = "idle"
    /\ attempts < MaxAttempts
    /\ \E f \in Forms :
        /\ form' = f
        /\ req' = f
        /\ notifs' = ValidationFailure(f)
        /\ pc' = IF ValidationFailure(f) # <<>> THEN "done" ELSE "mkdir_script"
    /\ attempts' = attempts + 1
    /\ log' = <<>>
    /\ copied' = FALSE
    /\ files0' = files
    /\ dirs0' = dirs
    /\ history0' = history
    /\ UNCHANGED <<env, files, dirs, saveTmp, history, settings, otherVars>>

\* line 449
MkdirScriptOk ==
    /\ pc = "mkdir_script"
    /\ dirs' = dirs \cup {script_target_subdir(req)}
    /\ Step("copy_script", "script_dir")
    /\ UNCHANGED <<files, saveTmp>>

MkdirScriptFail ==
    /\ pc = "mkdir_script"
    /\ Fatal("mkdir_script")
    /\ UNCHANGED <<files, dirs>>

\* line 453: shutil.copy2 copies the data and the mode
CopyScriptOk ==
    /\ pc = "copy_script"
    /\ files' = Put(files, script_target_path(req), SourceFiles[req.script])
    /\ Step("chmod", "script_copied")
    /\ UNCHANGED <<dirs, saveTmp>>

CopyScriptFail ==
    /\ pc = "copy_script"
    /\ \/ files' = files
       \/ files' = Put(files, script_target_path(req),
                       [data |-> PartialData(SourceFiles[req.script].data),
                        mode |-> Mode644])
    /\ Fatal("copy_script")
    /\ UNCHANGED dirs

new_mode_ownerOnly(fs, f) == BitOr(fs[script_target_path(f)].mode, 64)

\* lines 457-459
new_mode(fs, f) == BitOr(fs[script_target_path(f)].mode, ExecBits)

ChmodOk ==
    /\ pc = "chmod"
    /\ IF files[script_target_path(req)].mode # new_mode(files, req)
       THEN /\ files' = [files EXCEPT ![script_target_path(req)].mode = new_mode(files, req)]
            /\ Step("mkdir_icons", "chmod_set")
       ELSE /\ files' = files
            /\ Step("mkdir_icons", "chmod_already")
    /\ UNCHANGED <<dirs, saveTmp>>

ChmodFail ==
    /\ pc = "chmod"
    /\ Fatal("chmod")
    /\ UNCHANGED <<files, dirs>>

\* line 462
MkdirIconsOk ==
    /\ pc = "mkdir_icons"
    /\ dirs' = dirs \cup {icons_base_dir}
    /\ Step("copy_icon", None)
    /\ UNCHANGED <<files, saveTmp>>

MkdirIconsFail ==
    /\ pc = "mkdir_icons"
    /\ Fatal("mkdir_icons")
    /\ UNCHANGED <<files, dirs>>

CopyIconOk_deferred ==
    /\ pc = "copy_icon"
    /\ files' = files
    /\ Step("mkdir_apps", "icon_copied")
    /\ UNCHANGED <<dirs, saveTmp>>

\* line 465
CopyIconOk ==
    /\ pc = "copy_icon"
    /\ files' = Put(files, icon_target_path(req), SourceFiles[req.icon])
    /\ Step("mkdir_apps", "icon_copied")
    /\ UNCHANGED <<dirs, saveTmp>>

CopyIconFail_continues ==
    /\ pc = "copy_icon"
    /\ files' = files
    /\ pc' = "mkdir_apps"
    /\ log' = Append(log, "Error")
    /\ notifs' = Append(notifs, Note("critical", "Error", "copy_icon"))
    /\ UNCHANGED <<form, req, env, dirs, saveTmp, copied, history, settings, files0,
                   dirs0, history0, attempts, otherVars>>

CopyIconFail ==
    /\ pc = "copy_icon"
    /\ \/ files' = files
       \/ files' = Put(files, icon_target_path(req),
                       [data |-> PartialData(SourceFiles[req.icon].data),
                        mode |-> Mode644])
    /\ Fatal("copy_icon")
    /\ UNCHANGED dirs

\* line 469
MkdirAppsOk ==
    /\ pc = "mkdir_apps"
    /\ dirs' = dirs \cup {app_dir_path}
    /\ Step("save_open", None)
    /\ UNCHANGED <<files, saveTmp>>

MkdirAppsFail ==
    /\ pc = "mkdir_apps"
    /\ Fatal("mkdir_apps")
    /\ UNCHANGED <<files, dirs>>

\* lines 472-473: QSaveFile.open creates an empty temporary file
SaveOpenOk ==
    /\ pc = "save_open"
    /\ saveTmp' = [open |-> TRUE, data |-> <<>>]
    /\ Step("save_write", None)
    /\ UNCHANGED <<files, dirs>>

SaveOpenFail ==
    /\ pc = "save_open"
    /\ Fatal("open")
    /\ UNCHANGED <<files, dirs>>

\* line 474: QSaveFile.write goes to the temporary file
SaveWriteOk ==
    /\ pc = "save_write"
    /\ saveTmp' = [open |-> TRUE, data |-> desktop_content(req, env)]
    /\ Step("save_commit", None)
    /\ UNCHANGED <<files, dirs>>

SaveWriteFail_direct ==
    /\ pc = "save_write"
    /\ files' = Put(files, desktop_file_path(req),
                    [data |-> PartialData(desktop_content(req, env)),
                     mode |-> CommitMode(files, desktop_file_path(req))])
    /\ Fatal("write")
    /\ UNCHANGED dirs

SaveWriteFail ==
    /\ pc = "save_write"
    /\ Fatal("write")
    /\ UNCHANGED <<files, dirs>>

\* lines 475-477: QSaveFile.commit renames the temporary file into place
SaveCommitOk ==
    /\ pc = "save_commit"
    /\ files' = Put(files, desktop_file_path(req),
                    [data |-> saveTmp.data, mode |-> CommitMode(files, desktop_file_path(req))])
    /\ saveTmp' = NoTmp
    /\ Step("desktop", "desktop_created")
    /\ UNCHANGED dirs

SaveCommitFail ==
    /\ pc = "save_commit"
    /\ Fatal("commit")
    /\ UNCHANGED <<files, dirs>>

\* line 480: the checkbox is not set
DesktopSkip ==
    /\ pc = "desktop"
    /\ ~req.copy
    /\ Step("finish", None)
    /\ UNCHANGED <<files, dirs, saveTmp>>

\* the soft failures of lines 482-484 and 494-496
SoftFail_raised(line, title) == Fatal(line)

SoftFail(line, title) ==
    /\ pc' = "finish"
    /\ log' = Append(log, line)
    /\ notifs' = Append(notifs, Note("warning", title, "desktop"))
    /\ UNCHANGED <<form, req, env, saveTmp, copied, history, settings, files0, dirs0,
                   history0, attempts, otherVars>>

\* lines 481-484
DesktopUnknown ==
    /\ pc = "desktop"
    /\ req.copy
    /\ env.desktop = <<>>
    /\ SoftFail("desktop_unknown", "Desktop Copy Skipped")
    /\ UNCHANGED <<files, dirs>>

\* lines 487-493
DesktopCopyOk ==
    /\ pc = "desktop"
    /\ req.copy
    /\ env.desktop # <<>>
    /\ dirs' = dirs \cup {env.desktop}
    /\ files' = Put(files, desktop_shortcut_path(req, env), files[desktop_file_path(req)])
    /\ pc' = "finish"
    /\ log' = Append(log, "desktop_copied")
    /\ copied' = TRUE
    /\ UNCHANGED <<form, req, env, saveTmp, history, settings, notifs, files0, dirs0,
                   history0, attempts, otherVars>>

\* line 488 raises
DesktopMkdirFail ==
    /\ pc = "desktop"
    /\ req.copy
    /\ env.desktop # <<>>
    /\ SoftFail("desktop_copy_failed", "Desktop Copy Failed")
    /\ UNCHANGED <<files, dirs>>

\* line 490 raises
DesktopCopyFail ==
    /\ pc = "desktop"
    /\ req.copy
    /\ env.desktop # <<>>
    /\ dirs' = dirs \cup {env.desktop}
    /\ \/ files' = files
       \/ files' = Put(files, desktop_shortcut_path(req, env),
                       [data |-> PartialData(files[desktop_file_path(req)].data),
                        mode |-> Mode644])
    /\ SoftFail("desktop_copy_failed", "Desktop Copy Failed")

\* lines 499-517: the history, then the success dialog
Finish ==
    /\ pc = "finish"
    /\ IF form_should_add_to_history(req, env)
       THEN /\ history' = add_interpreter_to_history(history, form_interpreter_cmd(req, env))
            /\ form' = IF history' # history
                       THEN [form EXCEPT !.interp = history'[1]]
                       ELSE form
       ELSE UNCHANGED <<history, form>>
    /\ notifs' = Append(notifs,
                    Note("information", "Success",
                         IF req.copy THEN (IF copied THEN "desktop_copied" ELSE "desktop_failed")
                         ELSE "no_desktop"))
    /\ pc' = "done"
    /\ UNCHANGED <<req, env, files, dirs, saveTmp, copied, settings, log, files0, dirs0,
                   history0, attempts, otherVars>>

\* the handler returns to the event loop
Return ==
    /\ pc = "done"
    /\ pc' = "idle"
    /\ UNCHANGED <<form, req, env, files, dirs, saveTmp, copied, history, settings, notifs,
                   log, files0, dirs0, history0, attempts, otherVars>>

clear_fields_clearsHistory ==
    /\ pc = "idle"
    /\ form' = ClearedForm
    /\ history' = <<>>
    /\ UNCHANGED <<pc, req, env, files, dirs, saveTmp, copied, settings, notifs,
                   log, files0, dirs0, history0, attempts, otherVars>>

\* lines 529-540
clear_fields ==
    /\ pc = "idle"
    /\ form' = ClearedForm
    /\ UNCHANGED <<pc, req, env, files, dirs, saveTmp, copied, history, settings, notifs,
                   log, files0, dirs0, history0, attempts, otherVars>>

NoCall == [called |-> FALSE]

Init ==
    /\ InstallInit
    /\ sn = NoCall
    /\ ex = NoCall
    /\ rd = NoCall
    /\ pl = NoCall

Next ==
    \/ Generate
    \/ MkdirScriptOk \/ MkdirScriptFail
    \/ CopyScriptOk \/ CopyScriptFail
    \/ ChmodOk \/ ChmodFail
    \/ MkdirIconsOk \/ MkdirIconsFail
    \/ CopyIconOk \/ CopyIconFail
    \/ MkdirAppsOk \/ MkdirAppsFail
    \/ SaveOpenOk \/ SaveOpenFail
    \/ SaveWriteOk \/ SaveWriteFail
    \/ SaveCommitOk \/ SaveCommitFail
    \/ DesktopSkip \/ DesktopUnknown \/ DesktopCopyOk
    \/ DesktopMkdirFail \/ DesktopCopyFail
    \/ Finish
    \/ Return
    \/ clear_fields

Spec == Init /\ [][Next]_vars

\* The handler is one synchronous call on the GUI thread: once entered it runs
\* to its return, each dialog being dismissed by the user.
\* Its steps: each statement either raises or completes.
HandlerStep ==
    \/ MkdirScriptFail \/ CopyScriptFail \/ ChmodFail \/ MkdirIconsFail
    \/ CopyIconFail \/ MkdirAppsFail \/ SaveOpenFail \/ SaveWriteFail
    \/ SaveCommitFail
    \/ DesktopSkip \/ DesktopUnknown \/ DesktopMkdirFail \/ DesktopCopyFail
    \/ Finish
    \/ MkdirScriptOk \/ CopyScriptOk \/ ChmodOk \/ MkdirIconsOk \/ CopyIconOk
    \/ MkdirAppsOk \/ SaveOpenOk \/ SaveWriteOk \/ SaveCommitOk \/ DesktopCopyOk

SpecLive == Spec /\ WF_vars(HandlerStep)

(***************************************************************************)
(* The pure functions and the history on their own                         *)
(***************************************************************************)
\* the install handler is not running and nothing is installed
InstallOff ==
    /\ pc = "off"
    /\ form = InitialForm
    /\ req = InitialForm
    /\ env = OldEnv
    /\ files = NoFiles
    /\ dirs = {}
    /\ saveTmp = NoTmp
    /\ copied = FALSE
    /\ notifs = <<>>
    /\ log = <<>>
    /\ files0 = NoFiles
    /\ dirs0 = {}
    /\ attempts = 0

installOffVars == <<pc, form, req, env, files, dirs, saveTmp, copied, notifs, log,
                    files0, dirs0, attempts>>

StringsUpTo(chars, n) == UNION { [1..k -> chars] : k \in 0..n }

\* sanitize_filename on every display name of at most MaxNameLen characters
SanChars == {"a", "B", "7", "_", "-", " ", "!"}

SanInit ==
    /\ InstallOff
    /\ history = <<>> /\ settings = <<>> /\ history0 = <<>>
    /\ ex = NoCall
    /\ rd = NoCall
    /\ pl = NoCall
    /\ \E name \in StringsUpTo(SanChars, MaxNameLen) :
        sn = [called |-> FALSE, name |-> name, token |-> <<>>,
              again |-> FALSE, token2 |-> <<>>]

SanCall ==
    /\ ~sn.called
    /\ sn' = [sn EXCEPT !.called = TRUE, !.token = sanitize_filename(sn.name)]
    /\ UNCHANGED <<installVars, ex, rd, pl>>

\* sanitize_filename applied to its own result
SanAgain ==
    /\ sn.called
    /\ ~sn.again
    /\ sn' = [sn EXCEPT !.again = TRUE, !.token2 = sanitize_filename(sn.token)]
    /\ UNCHANGED <<installVars, ex, rd, pl>>

SanNext == SanCall \/ SanAgain

SpecSanitize == SanInit /\ [][SanNext]_vars

\* the Exec command of lines 379 and 419-427 on a range of forms
ExPrefixes ==
    { <<>>, <<" ">>, <<"x">>, <<" ","x"," ">>, S_java, S_jar,
      S_java \o <<" ">> \o S_jar,
      <<"/","o","/","j"," ","-","X">> }
ExTargets ==
    { PathJoin(PathJoin(script_target_base_dir, <<"c">>), <<"r","u","n",".","s","h">>),
      PathJoin(PathJoin(script_target_base_dir, <<"a","-","b">>), <<"a"," ","b",".","j","a","r">>) }

ExInit ==
    /\ InstallOff
    /\ history = <<>> /\ settings = <<>> /\ history0 = <<>>
    /\ sn = NoCall
    /\ rd = NoCall
    /\ pl = NoCall
    /\ \E m \in Methods, t \in ExPrefixes, o \in BOOLEAN, p \in ExTargets :
        ex = [called |-> FALSE, method |-> m, text |-> t, onPath |-> o, target |-> p,
              command |-> <<>>, add |-> FALSE]

ExBuild ==
    /\ ~ex.called
    /\ ex' = [ex EXCEPT
                !.called = TRUE,
                !.command = exec_command(ex.method, Strip(ex.text), ex.onPath, ex.target),
                !.add = should_add_to_history(ex.method, Strip(ex.text), ex.onPath)]
    /\ UNCHANGED <<installVars, sn, rd, pl>>

ExNext == ExBuild

SpecExec == ExInit /\ [][ExNext]_vars

\* the history under any sequence of additions, saves and loads
HistItem(i) == <<"h", LowerLetters[i]>>
FullHistory == [i \in 1..MAX_INTERPRETER_HISTORY |-> HistItem(i)]
LoadedHistories ==
    { <<>>, << HistItem(1) >>,
      SubSeq(FullHistory, 1, MAX_INTERPRETER_HISTORY - 1), FullHistory }
HistTexts ==
    { <<>>, <<"n","1">>, <<"N","1">>, <<"n","2">>, <<"n","3">>,
      HistItem(1), HistItem(MAX_INTERPRETER_HISTORY) }

HistInit ==
    /\ InstallOff
    /\ sn = NoCall
    /\ ex = NoCall
    /\ rd = NoCall
    /\ pl = NoCall
    /\ history \in LoadedHistories
    /\ settings = history
    /\ history0 = history

\* add_interpreter_to_history(cmd), lines 364-370
HistAdd ==
    /\ \E cmd \in HistTexts : history' = add_interpreter_to_history(history, cmd)
    /\ history0' = history
    /\ UNCHANGED <<installOffVars, settings, sn, ex, rd, pl>>

\* save_settings, lines 302-306
HistSave ==
    /\ settings' = SavedHistory(history)
    /\ UNCHANGED <<installOffVars, history, history0, sn, ex, rd, pl>>

\* load_settings in the next run of the program, lines 296-300
HistLoad ==
    /\ history' = settings
    /\ history0' = settings
    /\ UNCHANGED <<installOffVars, settings, sn, ex, rd, pl>>

HistNext == HistAdd \/ HistSave \/ HistLoad

SpecHistory == HistInit /\ [][HistNext]_vars

(***************************************************************************)
(* The descriptor text as a function of the form                           *)
(***************************************************************************)
\* three of the entries of DESKTOP_CATEGORIES
SomeCategories == {<<"G","a","m","e">>, <<"Q","t">>, <<"K","D","E">>}

\* selectedItems(): any selection, in any order
Selections ==
    {q \in UNION {[1..n -> SomeCategories] : n \in 0..Cardinality(SomeCategories)} :
        \A i, j \in DOMAIN q : i # j => q[i] # q[j]}

Comments == {<<>>, <<" ">>, <<"k">>, <<" ","k"," ","k"," ">>}

RenderForms ==
    {[BaseForm EXCEPT !.comment = c, !.cats = q, !.terminal = t,
                      !.method = m, !.interp = i] :
        c \in Comments, q \in Selections, t \in BOOLEAN,
        m \in Methods, i \in Interps}

RenderInit ==
    /\ InstallOff
    /\ history = <<>> /\ settings = <<>> /\ history0 = <<>>
    /\ sn = NoCall
    /\ ex = NoCall
    /\ pl = NoCall
    /\ \E f \in RenderForms, e \in Envs :
        rd = [called |-> FALSE, form |-> f, env |-> e, text |-> <<>>]

Render ==
    /\ ~rd.called
    /\ rd' = [rd EXCEPT !.called = TRUE,
                        !.text = desktop_text(rd.form, rd.env)]
    /\ UNCHANGED <<installVars, sn, ex, pl>>

RenderNext == Render

SpecRender == RenderInit /\ [][RenderNext]_vars

(***************************************************************************)
(* The target paths of two requests (lines 402-415, 489)                   *)
(***************************************************************************)
PlanNames ==
    { <<"c">>, <<"C","!">>, <<"c","/","d">>, <<"A"," ","b">>, <<"a","-","b">>,
      <<"!">> }

PlanForms ==
    {[BaseForm EXCEPT !.name = n, !.script = s, !.icon = i] :
        n \in PlanNames, s \in {ScriptA, ScriptB}, i \in {IconPng, IconSvg}}

\* the paths one request writes to
plan(f, e) ==
    [token |-> base_filename(f),
     script |-> script_target_path(f),
     icon |-> icon_target_path(f),
     descriptor |-> desktop_file_path(f),
     desktop |-> IF f.copy /\ e.desktop # <<>>
                 THEN desktop_shortcut_path(f, e) ELSE <<>>]

PlanInit ==
    /\ InstallOff
    /\ history = <<>> /\ settings = <<>> /\ history0 = <<>>
    /\ sn = NoCall
    /\ ex = NoCall
    /\ rd = NoCall
    /\ \E f \in PlanForms, g \in PlanForms, e \in Envs :
        pl = [called |-> FALSE, forms |-> <<f, g>>, env |-> e, plans |-> <<>>]

PlanBuild ==
    /\ ~pl.called
    /\ pl' = [pl EXCEPT !.called = TRUE,
                        !.plans = <<plan(pl.forms[1], pl.env),
                                    plan(pl.forms[2], pl.env)>>]
    /\ UNCHANGED <<installVars, sn, ex, rd>>

PlanNext == PlanBuild

SpecPlan == PlanInit /\ [][PlanNext]_vars

(***************************************************************************)
(* Properties                                                              *)
(***************************************************************************)
Last(q) == q[Len(q)]
Count(q, x) == Cardinality({i \in DOMAIN q : q[i] = x})
AttemptMade == attempts > 0
EndedInSuccess == pc = "done" /\ notifs # <<>> /\ Last(notifs).kind = "information"
EndedInFatal == pc = "done" /\ notifs # <<>> /\ Last(notifs).kind = "critical"
EndedInValidation ==
    pc = "done" /\ Len(notifs) = 1 /\ notifs[1].kind = "warning" /\ log = <<>>

\* the validation conditions as the specification lists them
RequestInvalid ==
    \/ Strip(req.name) = <<>>
    \/ req.script \notin DOMAIN SourceFiles
    \/ req.icon \notin DOMAIN SourceFiles
    \/ Lower(PathSuffix(req.icon)) \notin {S_png, S_svg, S_xpm}

\* C1: a generate attempt whose validation fails (blank name, script or icon
\* missing or not a regular file, icon extension outside .png/.svg/.xpm) ends
\* at once with a validation warning, and nothing on disk has changed: no
\* directory, no file, no temporary descriptor, no history change.
C1_ValidationFailureMutatesNothing ==
    (AttemptMade /\ pc # "idle" /\ RequestInvalid) =>
        /\ EndedInValidation
        /\ files = files0
        /\ dirs = dirs0
        /\ saveTmp = NoTmp
        /\ history = history0

C1_Witness ==
    /\ pc = "done"
    /\ req.icon = IconGif
    /\ notifs = <<Note("warning", "Invalid Icon", "extension")>>
    /\ files0 # NoFiles

\* the log lines of install steps 2-8 that log, in the order of the code
StepLines(mode_line) == <<"script_dir", "script_copied", mode_line, "icon_copied">>
IsPrefixOf(a, b) == Len(a) <= Len(b) /\ a = SubSeq(b, 1, Len(a))

\* the number of logged steps completed before each failing step
DoneBefore(cause) ==
    CASE cause = "mkdir_script" -> 0
      [] cause = "copy_script" -> 1
      [] cause = "chmod" -> 2
      [] cause \in {"mkdir_icons", "copy_icon"} -> 3
      [] OTHER -> 4

\* C2: when one of install steps 2-8 fails, the handler is at its end at
\* once with the error dialog: exactly the steps before the failing one
\* have run and none after it, no descriptor was written, no desktop copy was
\* attempted, no success is reported, and what the completed steps
\* installed (script copy with its mode, icon copy) is still in place.
C2_FatalAbortsWithoutRollback ==
    (AttemptMade /\ \E i \in DOMAIN notifs : notifs[i].kind = "critical") =>
        LET cause == Last(notifs).detail
            done == SubSeq(log, 1, Len(log) - 1)
        IN  /\ pc \in {"done", "idle"}
            /\ Last(notifs).kind = "critical"
            /\ Len(notifs) = 1
            /\ Last(log) = "Error"
            /\ Len(done) = DoneBefore(cause)
            /\ \/ IsPrefixOf(done, StepLines("chmod_set"))
               \/ IsPrefixOf(done, StepLines("chmod_already"))
            /\ ~copied
            /\ saveTmp = NoTmp
            /\ history = history0
            /\ \A p \in {desktop_file_path(req), desktop_shortcut_path(req, env)} :
                  /\ Exists(files, p) <=> Exists(files0, p)
                  /\ Exists(files, p) => files[p] = files0[p]
            /\ Len(done) >= 1 => script_target_subdir(req) \in dirs
            /\ Len(done) >= 2 =>
                  /\ Exists(files, script_target_path(req))
                  /\ files[script_target_path(req)].data = SourceFiles[req.script].data
            /\ Len(done) >= 3 =>
                  files[script_target_path(req)].mode =
                      BitOr(SourceFiles[req.script].mode, ExecBits)
            /\ Len(done) >= 4 =>
                  /\ Exists(files, icon_target_path(req))
                  /\ files[icon_target_path(req)] = SourceFiles[req.icon]
            /\ dirs0 \subseteq dirs

C2_Witness ==
    /\ EndedInFatal
    /\ Last(notifs).detail = "copy_icon"
    /\ req.script = ScriptB
    /\ Exists(files0, script_target_path(req))
    /\ files0[script_target_path(req)].data = SourceFiles[ScriptA].data
    /\ files[script_target_path(req)].data = SourceFiles[ScriptB].data
    /\ Exists(files0, desktop_file_path(req))
    /\ files[desktop_file_path(req)] = files0[desktop_file_path(req)]

\* C3: with copy_to_desktop set and steps 1-8 done, a failed desktop step
\* (no desktop directory, or mkdir/copy raising) still ends in the success
\* dialog, which flags the desktop copy as failed, after one warning and no
\* error dialog; script, icon and descriptor are installed.
C3_DesktopFailureIsSoft ==
    (AttemptMade /\ pc \in {"done", "idle"} /\ req.copy /\ ~copied
        /\ \E i \in DOMAIN log : log[i] = "desktop_created") =>
        /\ Len(notifs) = 2
        /\ notifs[1].kind = "warning"
        /\ notifs[2] = Note("information", "Success", "desktop_failed")
        /\ \A i \in DOMAIN log : log[i] # "Error"
        /\ Exists(files, script_target_path(req))
        /\ files[script_target_path(req)].data = SourceFiles[req.script].data
        /\ Exists(files, icon_target_path(req))
        /\ files[icon_target_path(req)] = SourceFiles[req.icon]
        /\ Exists(files, desktop_file_path(req))
        /\ files[desktop_file_path(req)].data = desktop_content(req, env)

C3_Witness ==
    /\ pc = "done"
    /\ req.copy
    /\ env.desktop = <<>>
    /\ notifs = <<Note("warning", "Desktop Copy Skipped", "desktop"),
                  Note("information", "Success", "desktop_failed")>>

\* C4: at every moment the file at the final descriptor path is absent as
\* before, or has its previous full content, or the complete new descriptor
\* text; a failure during open, write or commit leaves that path as it was.
C4_DescriptorAllOrNothing ==
    LET p == desktop_file_path(req)
        unchanged == /\ Exists(files, p) <=> Exists(files0, p)
                     /\ Exists(files, p) => files[p] = files0[p]
    IN  /\ \/ unchanged
           \/ /\ Exists(files, p)
              /\ files[p].data = desktop_content(req, env)
              /\ \E i \in DOMAIN log : log[i] = "desktop_created"
        /\ (\E i \in DOMAIN notifs : notifs[i].kind = "critical") => unchanged
        /\ pc \in {"save_open", "save_write", "save_commit"} => unchanged

C4_Witness ==
    /\ EndedInFatal
    /\ Last(notifs).detail = "commit"
    /\ Exists(files0, desktop_file_path(req))
    /\ files[desktop_file_path(req)] = files0[desktop_file_path(req)]
    /\ files[desktop_file_path(req)].data # desktop_content(req, env)

\* C5: the history never holds more than 15 entries, and an addition that
\* changes it puts the new text in front of the old entries and drops only
\* what no longer fits at the end of the list.
C5_HistoryBounded ==
    /\ Len(history) <= 15
    /\ history # history0 =>
          /\ Len(history) = (IF Len(history0) < 15 THEN Len(history0) + 1 ELSE 15)
          /\ Tail(history) = SubSeq(history0, 1, Len(history) - 1)

C5_Witness ==
    /\ Len(history0) = 15
    /\ Len(history) = 15
    /\ history # history0
    /\ history[1] = <<"n","2">>
    /\ history[15] = history0[14]

\* the history-eligibility rule as the specification states it
RequestEligible ==
    \/ req.method = 4 /\ Strip(req.interp) # <<>>
    \/ req.method \in {1, 2, 3} /\ Strip(req.interp) # <<>>

\* C6: after a successful generation with a history-eligible interpreter the
\* history holds that exact text exactly once, as its first entry.
C6_EligibleInterpreterIsFirst ==
    (EndedInSuccess /\ RequestEligible) =>
        /\ history # <<>>
        /\ history[1] = Strip(req.interp)
        /\ Count(history, Strip(req.interp)) = 1

\* C7: a generation changes the history only when the method is CUSTOM,
\* PYTHON, JAVA or BASH and the user supplied a non-empty prefix; with DIRECT
\* or with an auto-resolved default the history is as it was.
C7_OnlyEligibleReachHistory ==
    (AttemptMade /\ history # history0) => RequestEligible

C7_Witness ==
    /\ EndedInSuccess
    /\ req.method = 2
    /\ Strip(req.interp) = <<>>
    /\ env.onPath
    /\ history = history0

\* the words of a command line: split at whitespace outside double quotes
RECURSIVE TokensFrom(_, _, _)
TokensFrom(s, cur, inQuotes) ==
    IF s = <<>> THEN (IF cur = <<>> THEN <<>> ELSE <<cur>>)
    ELSE IF Head(s) = "\"" THEN TokensFrom(Tail(s), Append(cur, Head(s)), ~inQuotes)
    ELSE IF Head(s) \in SpaceChars /\ ~inQuotes
         THEN (IF cur = <<>> THEN <<>> ELSE <<cur>>) \o TokensFrom(Tail(s), <<>>, FALSE)
    ELSE TokensFrom(Tail(s), Append(cur, Head(s)), inQuotes)

Tokens(s) == TokensFrom(s, <<>>, FALSE)
QuotedTarget == <<"\"">> \o ex.target \o <<"\"">>

\* C8 as stated: for JAVA and every prefix the command has exactly one -jar
\* token, and it immediately precedes the quoted target path.
C8_ExactlyOneJar ==
    (ex.called /\ ex.method = 2) =>
        LET t == Tokens(ex.command)
        IN  /\ Count(t, S_jar) = 1
            /\ Len(t) >= 2
            /\ t[Len(t)] = QuotedTarget
            /\ t[Len(t) - 1] = S_jar

\* C8 amended: for JAVA the command is the effective interpreter (the
\* stripped prefix, or the resolved default when it is empty), then " -jar ",
\* then the quoted target path, so the builder adds exactly one -jar and it
\* immediately precedes the quoted path; the command has one more -jar token
\* than the prefix, hence exactly one only when the prefix has none.
C8_JarBeforeTarget ==
    (ex.called /\ ex.method = 2) =>
        LET t == Tokens(ex.command)
            tail == <<" ">> \o S_jar \o <<" ">> \o QuotedTarget
            n == Len(ex.command) - Len(tail)
        IN  /\ n > 0
            /\ SubSeq(ex.command, n + 1, Len(ex.command)) = tail
            /\ SubSeq(ex.command, 1, n) =
                  (IF Strip(ex.text) # <<>> THEN Strip(ex.text)
                   ELSE IF ex.onPath THEN <<"/","u","/">> \o S_java ELSE S_java)
            /\ t[Len(t)] = QuotedTarget
            /\ t[Len(t) - 1] = S_jar
            /\ Count(t, S_jar) = 1 + Count(Tokens(ex.text), S_jar)

C8_Witness ==
    /\ ex.called
    /\ ex.method = 2
    /\ ex.text = S_java \o <<" ">> \o S_jar
    /\ Count(Tokens(ex.command), S_jar) = 2

\* C9: for DIRECT the command is the quoted target path alone, whatever the
\* prefix field holds.
C9_DirectIgnoresPrefix ==
    (ex.called /\ ex.method = 0) =>
        /\ ex.command = QuotedTarget
        /\ ~ex.add

C9_Witness ==
    /\ ex.called
    /\ ex.method = 0
    /\ Strip(ex.text) = S_java
    /\ ex.command = QuotedTarget

LowerAlnum == Range(LowerLetters) \cup DigitChars

\* ^[a-z0-9]+(-[a-z0-9]+)*$
MatchesTokenPattern(t) ==
    /\ t # <<>>
    /\ \A i \in DOMAIN t : t[i] \in LowerAlnum \cup {"-"}
    /\ t[1] # "-"
    /\ t[Len(t)] # "-"
    /\ \A i \in 1..(Len(t) - 1) : ~(t[i] = "-" /\ t[i + 1] = "-")

\* C10 as stated: the output of sanitize matches ^[a-z0-9]+(-[a-z0-9]+)*$ or
\* is the fallback token.
C10_MatchesPattern ==
    sn.called => (MatchesTokenPattern(sn.token) \/ sn.token = FallbackToken)

\* C10 amended: the output of sanitize is non-empty, holds only lower-case
\* letters, digits, underscores and hyphens, and neither starts nor ends
\* with a hyphen (underscores are kept and hyphens may be doubled).
C10_SafeToken ==
    sn.called =>
        /\ sn.token # <<>>
        /\ \A i \in DOMAIN sn.token : sn.token[i] \in LowerAlnum \cup {"-", "_"}
        /\ sn.token[1] # "-"
        /\ sn.token[Len(sn.token)] # "-"

C10_Witness ==
    /\ sn.called
    /\ sn.name = <<"B", "_", " ", "-">>
    /\ sn.token = <<"b", "_">>

\* C11: sanitize is idempotent: applied to its own output (the fallback
\* token included) it returns that output unchanged.
C11_SanitizeIdempotent ==
    sn.again => sn.token2 = sn.token

C11_Witness ==
    /\ sn.again
    /\ sn.name = <<"!", " ", "-">>
    /\ sn.token = FallbackToken
    /\ sn.token2 = FallbackToken

\* the lines of a text: the pieces ended by a line feed
LineFeeds(text) == {i \in DOMAIN text : text[i] = "\n"}

LinesOf(text) ==
    LET B == LineFeeds(text)
        nth(k) == CHOOSE i \in B : Cardinality({j \in B : j < i}) = k - 1
        start(k) == IF k = 1 THEN 1 ELSE nth(k - 1) + 1
    IN  [k \in 1..Cardinality(B) |-> SubSeq(text, start(k), nth(k) - 1)]

FirstEq(line) ==
    IF \E i \in DOMAIN line : line[i] = "="
    THEN CHOOSE i \in DOMAIN line :
            line[i] = "=" /\ \A j \in 1..(i - 1) : line[j] # "="
    ELSE Len(line) + 1

KeyOf(line) == SubSeq(line, 1, FirstEq(line) - 1)
ValueOf(line) == SubSeq(line, FirstEq(line) + 1, Len(line))

RECURSIVE EachWithSemicolon(_)
EachWithSemicolon(cats) ==
    IF cats = <<>> THEN <<>>
    ELSE cats[1] \o <<";">> \o EachWithSemicolon(Tail(cats))

NonBlank(text) == \E i \in DOMAIN text : text[i] \notin SpaceChars

RenderedLines == LinesOf(rd.text)

ExpectedKeys(withComment, withCategories) ==
    << <<"[Desktop Entry]">>, <<"Version">>, <<"Type">>, <<"Name">>,
       <<"Exec">>, <<"Icon">>, <<"Terminal">> >>
    \o (IF withComment THEN << <<"Comment">> >> ELSE <<>>)
    \o (IF withCategories THEN << <<"Categories">> >> ELSE <<>>)
    \o << <<"Path">>, <<"StartupNotify">> >>

\* C12: the descriptor text is the header, Version, Type, Name, Exec, Icon,
\* Terminal, then Comment exactly when the comment has a non-blank
\* character, then Categories exactly when a category is selected (its value
\* being each selected category followed by a semicolon), then Path and
\* StartupNotify, each line ended by a line feed.
C12_DescriptorLayout ==
    rd.called =>
        LET f == rd.form
            L == RenderedLines
            keys == [i \in DOMAIN L |-> KeyOf(L[i])]
        IN  /\ rd.text # <<>> /\ Last(rd.text) = "\n"
            /\ keys = ExpectedKeys(NonBlank(f.comment), f.cats # <<>>)
            /\ \A i \in DOMAIN L :
                /\ keys[i] = <<"Comment">> =>
                        /\ NonBlank(ValueOf(L[i]))
                        /\ ValueOf(L[i]) = Strip(f.comment)
                /\ keys[i] = <<"Categories">> =>
                        ValueOf(L[i]) = EachWithSemicolon(f.cats)
                /\ keys[i] = <<"Terminal">> =>
                        ValueOf(L[i]) = (IF f.terminal THEN S_true ELSE S_false)
                /\ keys[i] = <<"StartupNotify">> => ValueOf(L[i]) = S_true

C12_Witness ==
    /\ rd.called
    /\ rd.form.comment = <<" ","k"," ","k"," ">>
    /\ Len(rd.form.cats) = 2
    /\ Len(RenderedLines) = 11
    /\ KeyOf(RenderedLines[8]) = <<"Comment">>
    /\ ValueOf(RenderedLines[9]) = <<"Q","t",";","G","a","m","e",";">>

HasBit(m, b) == (m \div b) % 2 = 1
PermBits == {1, 2, 4, 8, 16, 32, 64, 128, 256}
ExecuteBits == {1, 8, 64}

\* C13: the permission step only adds bits: across it a permission bit of
\* the copied script is set exactly when it was set before or is one of
\* owner, group and other execute; the content is untouched, and when the
\* three were already set (or the step fails) the filesystem is unchanged.
C13_ChmodOnlyAddsBits ==
    [][pc = "chmod" =>
        LET p == script_target_path(req)
            before == files[p].mode
            after == files'[p].mode
        IN  /\ p \in DOMAIN files'
            /\ files'[p].data = files[p].data
            /\ \A q \in DOMAIN files : q # p => files'[q] = files[q]
            /\ DOMAIN files' = DOMAIN files
            /\ IF pc' = "mkdir_icons"
               THEN \A b \in PermBits :
                        HasBit(after, b) <=> (HasBit(before, b) \/ b \in ExecuteBits)
               ELSE after = before
            /\ (\A b \in ExecuteBits : HasBit(before, b)) => after = before
    ]_vars

C13_Witness ==
    /\ pc = "mkdir_icons"
    /\ Last(log) = "chmod_set"
    /\ SourceFiles[req.script].mode = Mode644
    /\ files[script_target_path(req)].mode = Mode755

\* C14: the interpreter history changes only in the last step of an install
\* that ends in success, after the descriptor commit and the desktop step;
\* an attempt ending in a validation error or a fatal error ends with the
\* history it started with, and the clear action leaves the history alone.
C14_HistoryOnlyAtSuccessfulEnd ==
    [][ /\ history' # history =>
            /\ pc = "finish" /\ pc' = "done"
            /\ \E i \in DOMAIN log : log[i] = "desktop_created"
            /\ Exists(files, desktop_file_path(req))
            /\ req.copy => (copied \/ \E i \in DOMAIN notifs : notifs[i].kind = "warning")
            /\ Last(notifs').kind = "information"
            /\ \A i \in DOMAIN notifs' : notifs'[i].kind # "critical"
            /\ ~RequestInvalid
        /\ (pc # "done" /\ pc' = "done" /\ Last(notifs').kind # "information") =>
            history' = history0'
        /\ (pc = "idle" /\ pc' = "idle") => history' = history
      ]_vars

C14_Witness ==
    /\ EndedInSuccess
    /\ Last(notifs).detail = "desktop_failed"
    /\ history0 = << <<"y">>, <<"x">> >>
    /\ history = << <<"z">>, <<"y">>, <<"x">> >>

Kinds(k) == Count([i \in DOMAIN notifs |-> notifs[i].kind], k)
Logged(line) == \E i \in DOMAIN log : log[i] = line

OutcomeValidation ==
    /\ Len(notifs) = 1
    /\ notifs[1].kind = "warning"
    /\ notifs[1].title \in {"Input Missing", "Invalid Icon"}

OutcomeFatal ==
    /\ Len(notifs) = 1
    /\ notifs[1].kind = "critical"

OutcomeSuccess ==
    /\ notifs # <<>>
    /\ Last(notifs).kind = "information"
    /\ Kinds("information") = 1
    /\ Kinds("critical") = 0
    /\ IF req.copy /\ ~copied
       THEN /\ Len(notifs) = 2
            /\ notifs[1].kind = "warning"
            /\ notifs[1].title \in {"Desktop Copy Skipped", "Desktop Copy Failed"}
            /\ notifs[2].detail = "desktop_failed"
       ELSE /\ Len(notifs) = 1
            /\ notifs[1].detail = (IF req.copy THEN "desktop_copied" ELSE "no_desktop")

AttemptOutcome ==
    (AttemptMade /\ pc = "done") =>
        /\ Cardinality({o \in {"v", "f", "s"} :
                \/ o = "v" /\ OutcomeValidation
                \/ o = "f" /\ OutcomeFatal
                \/ o = "s" /\ OutcomeSuccess}) = 1
        /\ RequestInvalid => OutcomeValidation
        /\ (~RequestInvalid /\ ~Logged("desktop_created")) => OutcomeFatal
        /\ (\A p \in {script_target_path(req), icon_target_path(req),
                      desktop_file_path(req)} : Exists(files, p) /\ files = files0)
                => ~OutcomeFatal \/ ~RequestInvalid
        /\ Logged("desktop_created") => OutcomeSuccess
        /\ OutcomeSuccess =>
                /\ Logged("desktop_created")
                /\ copied <=> Logged("desktop_copied")

\* C15: every generate attempt ends, and ends in exactly one of validation
\* error, fatal error and success: an invalid request gives one warning and
\* nothing else, a failed install step gives one error dialog and no success
\* dialog, a failed desktop copy gives one warning followed by a success
\* dialog that marks the desktop copy as failed; no attempt ends without a
\* dialog.
C15_EveryAttemptEndsInOneSurfacedOutcome ==
    /\ []AttemptOutcome
    /\ (pc \notin {"idle", "done"}) ~> (pc = "done")

C15_Witness ==
    /\ pc = "done"
    /\ OutcomeFatal
    /\ notifs[1].detail = "open"
    /\ Logged("icon_copied")
    /\ req.copy

ScriptInstalled(fs) ==
    /\ Exists(fs, script_target_path(req))
    /\ fs[script_target_path(req)].data = SourceFiles[req.script].data
    /\ \A b \in ExecuteBits : HasBit(fs[script_target_path(req)].mode, b)

IconInstalled(fs) ==
    /\ Exists(fs, icon_target_path(req))
    /\ fs[icon_target_path(req)] = SourceFiles[req.icon]

Same(fs, gs, p) ==
    /\ Exists(fs, p) <=> Exists(gs, p)
    /\ Exists(fs, p) => fs[p] = gs[p]

\* the value of a key in descriptor lines
LineValue(lines, key) ==
    lines[CHOOSE n \in DOMAIN lines : lines[n][1] = key][2]

EndsWith(text, tail) ==
    /\ Len(tail) <= Len(text)
    /\ SubSeq(text, Len(text) - Len(tail) + 1, Len(text)) = tail

\* C16: within an attempt the descriptor at its final path changes only in a
\* step taken when the script (content and execute bits) and the icon are
\* at their targets, and those stay as they are; the desktop path changes
\* only after that commit, and a completed desktop copy equals the committed
\* descriptor; the committed descriptor's Exec, Icon and Path refer to
\* installed targets.
C16_DescriptorAfterItsTargets ==
    [][pc \notin {"idle", "done"} =>
        LET d == desktop_file_path(req)
            k == desktop_shortcut_path(req, env)
        IN  /\ ~Same(files', files, d) =>
                /\ pc = "save_commit"
                /\ ScriptInstalled(files) /\ ScriptInstalled(files')
                /\ IconInstalled(files) /\ IconInstalled(files')
                /\ files'[d].data = desktop_content(req, env)
                /\ ~Logged("desktop_copied")
                /\ Same(files', files, k)
            /\ ~Same(files', files, k) =>
                /\ pc = "desktop"
                /\ Logged("desktop_created")
                /\ files[d].data = desktop_content(req, env)
                /\ Same(files', files, d)
                /\ copied' => files'[k] = files[d]
            /\ copied' =>
                /\ Exists(files', k)
                /\ files'[k] = files'[d]
            /\ Logged("desktop_created") =>
                /\ ScriptInstalled(files') /\ IconInstalled(files')
                /\ Same(files', files, d)
                /\ LineValue(files[d].data, "Icon") = icon_target_path(req)
                /\ LineValue(files[d].data, "Path") \in dirs
                /\ EndsWith(LineValue(files[d].data, "Exec"),
                            quoted(script_target_path(req)))
    ]_vars

C16_Witness ==
    /\ pc = "finish"
    /\ copied
    /\ files0 = NoFiles
    /\ files[desktop_shortcut_path(req, env)] = files[desktop_file_path(req)]
    /\ files[desktop_file_path(req)].data = desktop_content(req, env)
    /\ ScriptInstalled(files)
    /\ IconInstalled(files)
    /\ log = <<"script_dir", "script_copied", "chmod_set", "icon_copied",
               "desktop_created", "desktop_copied">>

Targets(p) == {p.script, p.icon, p.descriptor, p.desktop} \ {<<>>}

\* the directory part and the last component of a path, read off the text
DirOf(path) ==
    LET n == CHOOSE i \in DOMAIN path :
                path[i] = "/" /\ \A j \in (i + 1)..Len(path) : path[j] # "/"
    IN  SubSeq(path, 1, n - 1)

BaseOf(path) ==
    LET n == CHOOSE i \in DOMAIN path :
                path[i] = "/" /\ \A j \in (i + 1)..Len(path) : path[j] # "/"
    IN  SubSeq(path, n + 1, Len(path))

\* C17: the target paths are built from the token and the standard
\* directories; two requests with different tokens share no target path
\* (same script basename and same icon extension included), and two requests
\* with the same token have the same descriptor and desktop paths, the same
\* icon path when the icon extensions agree, and the same script path when
\* the script basenames agree.
C17_TokenNamespacesTargets ==
    pl.called =>
        LET p == pl.plans[1]
            q == pl.plans[2]
            f == pl.forms[1]
            g == pl.forms[2]
        IN  /\ \A r \in {p, q} :
                /\ BaseOf(DirOf(r.script)) = r.token
                /\ DirOf(DirOf(r.script)) = <<"/","h","/",".","l","o","c","a","l","/","b","i","n">>
                /\ BaseOf(r.descriptor) = r.token \o <<".","d","e","s","k","t","o","p">>
                /\ DirOf(r.descriptor) = ApplicationsLocation
                /\ DirOf(r.icon) = GenericDataLocation \o <<"/","i","c","o","n","s">>
                /\ \E x \in {S_png, S_svg, S_xpm} : BaseOf(r.icon) = r.token \o x
                /\ r.desktop # <<>> =>
                    /\ DirOf(r.desktop) = pl.env.desktop
                    /\ BaseOf(r.desktop) = BaseOf(r.descriptor)
                /\ Cardinality(Targets(r)) = (IF r.desktop = <<>> THEN 3 ELSE 4)
            /\ p.token # q.token => Targets(p) \cap Targets(q) = {}
            /\ p.token = q.token =>
                /\ p.descriptor = q.descriptor
                /\ p.desktop = q.desktop
                /\ Lower(PathSuffix(f.icon)) = Lower(PathSuffix(g.icon)) <=> p.icon = q.icon
                /\ BaseOf(f.script) = BaseOf(g.script) <=> p.script = q.script

C17_Witness ==
    /\ pl.called
    /\ pl.forms[1].name = <<"c">>
    /\ pl.forms[2].name = <<"c","/","d">>
    /\ pl.forms[1].script = ScriptA
    /\ pl.forms[2].script = ScriptB
    /\ pl.forms[1].icon = pl.forms[2].icon
    /\ pl.plans[1].token # pl.plans[2].token
    /\ pl.plans[1].desktop # <<>>
    /\ BaseOf(pl.plans[1].script) = BaseOf(pl.plans[2].script)

====
